---------------------------- MODULE Spec2Model ----------------------------
(***************************************************************************)
(* Scoring engine of the LLM-Arena backend (src/src/index.ts): the text    *)
(* metrics, the criteria evaluator, the prompt-quality heuristic, the      *)
(* reverse-engineering evaluator, the submit-prompt / challenge-score /    *)
(* manual-submission handlers and the team progress snapshot.              *)
(*                                                                         *)
(* Texts are sequences of one-character strings, so that the regular       *)
(* expressions of the source (\w+, \b, \s, \d, substring tests) are        *)
(* computed character by character.  Scores are integers in hundredths of  *)
(* a point (the source rounds every reported score to two decimals);       *)
(* multipliers are integers in tenths (1.0 -> 10, 1.5 -> 15, 2.0 -> 20).   *)
(***************************************************************************)
EXTENDS Integers, Sequences, FiniteSets, TLC

VARIABLES
    teamScore,    \* Team.score of the registered team, in hundredths
    submissions,  \* the Submission table: sequence of [teamId, round, score]
    req,          \* in-flight HTTP requests: request id -> handler frame
    evalIn,       \* input of the last direct evaluator call
    evalOut,      \* its EvaluationResult
    history,      \* submission list read by the progress handler
    levels        \* the roundProgress array of the last progress response

vars == <<teamScore, submissions, req, evalIn, evalOut, history, levels>>

-----------------------------------------------------------------------------
(* Characters *)

LowerCase == <<"a","b","c","d","e","f","g","h","i","j","k","l","m",
               "n","o","p","q","r","s","t","u","v","w","x","y","z">>
UpperCase == <<"A","B","C","D","E","F","G","H","I","J","K","L","M",
               "N","O","P","Q","R","S","T","U","V","W","X","Y","Z">>
Letters == {LowerCase[k] : k \in 1..26} \cup {UpperCase[k] : k \in 1..26}
Digits == {"0","1","2","3","4","5","6","7","8","9"}

WordChars == Letters \cup Digits \cup {"_"}
SpaceChars == {" ", "\t", "\n", "\r"}

\* regex \w
IsWordChar(c) == c \in WordChars
\* regex \s
IsSpace(c) == c \in SpaceChars
\* regex \d
IsDigit(c) == c \in Digits

UpperSet == {UpperCase[k] : k \in 1..26}
LowerMap == [c \in UpperSet |-> LowerCase[CHOOSE k \in 1..26 : UpperCase[k] = c]]
LowerOf(c) == IF c \in UpperSet THEN LowerMap[c] ELSE c

\* String.prototype.toLowerCase
toLowerCase(t) == SubSeq([i \in 1..Len(t) |-> LowerOf(t[i])], 1, Len(t))

\* the character at position i, or "" past either end
CharAt(t, i) == IF i >= 1 /\ i <= Len(t) THEN t[i] ELSE ""

\* the literal s occurs in t starting at position i
MatchAt(t, i, s) ==
    /\ i >= 1
    /\ i + Len(s) - 1 <= Len(t)
    /\ \A j \in 1..Len(s) : t[i + j - 1] = s[j]

\* String.prototype.includes; a literal-alternative regex .test
includes(t, s) == \E i \in 1..(Len(t) + 1) : MatchAt(t, i, s)

\* regex \b at the gap before position p
WordBoundary(t, p) == IsWordChar(CharAt(t, p - 1)) # IsWordChar(CharAt(t, p))

\* regex \b<literal>\b matching at position p
WholeWordAt(t, p, w) ==
    /\ WordBoundary(t, p)
    /\ MatchAt(t, p, w)
    /\ WordBoundary(t, p + Len(w))

Max(a, b) == IF a >= b THEN a ELSE b
Min(a, b) == IF a <= b THEN a ELSE b
Abs(a) == IF a < 0 THEN -a ELSE a

\* Math.round(n / d) for d > 0: the nearest integer, halves going up
RoundDiv(n, d) == (2 * n + d) \div (2 * d)

\* a score given in points, in hundredths
Pts(n) == n * 100

-----------------------------------------------------------------------------
(* Text metrics *)

countWords(text) ==
    Cardinality({i \in 1..Len(text) :
        IsWordChar(text[i]) /\ ~IsWordChar(CharAt(text, i - 1))})

\* new RegExp(`\\b${escapeRegExp(w)}\\b`, 'u').test(t)
TestWholeWord(t, w) == \E p \in 1..(Len(t) + 1) : WholeWordAt(t, p, w)

findForbidden(text, forbidden) ==
    LET t == toLowerCase(text)
    IN  SelectSeq(forbidden, LAMBDA w : TestWholeWord(t, toLowerCase(w)))

containsRequired(text, required) ==
    LET t == toLowerCase(text)
    IN  SelectSeq(required, LAMBDA w : ~includes(t, toLowerCase(w)))

\* /\$\s?\d+/
PriceDollar(t) ==
    \E i \in 1..Len(t) :
        /\ t[i] = "$"
        /\ \/ IsDigit(CharAt(t, i + 1))
           \/ IsSpace(CharAt(t, i + 1)) /\ IsDigit(CharAt(t, i + 2))

\* after position k: \.?\s?\d+
DotSpaceDigit(t, k) ==
    \/ IsDigit(CharAt(t, k))
    \/ CharAt(t, k) = "." /\ IsDigit(CharAt(t, k + 1))
    \/ IsSpace(CharAt(t, k)) /\ IsDigit(CharAt(t, k + 1))
    \/ CharAt(t, k) = "." /\ IsSpace(CharAt(t, k + 1)) /\ IsDigit(CharAt(t, k + 2))

\* /\bRs\.?\s?\d+/i
PriceRs(t) ==
    LET l == toLowerCase(t)
    IN  \E i \in 1..Len(l) :
            /\ WordBoundary(l, i)
            /\ MatchAt(l, i, <<"r", "s">>)
            /\ DotSpaceDigit(l, i + 2)

\* /\bINR\b\s?\d+/i
PriceINR(t) ==
    LET l == toLowerCase(t)
    IN  \E i \in 1..Len(l) :
            /\ WholeWordAt(l, i, <<"i", "n", "r">>)
            /\ \/ IsDigit(CharAt(l, i + 3))
               \/ IsSpace(CharAt(l, i + 3)) /\ IsDigit(CharAt(l, i + 4))

\* /\d+\s?₹/
PriceRupee(t) ==
    \E i \in 1..Len(t) :
        /\ IsDigit(t[i])
        /\ \/ CharAt(t, i + 1) = "₹"
           \/ IsSpace(CharAt(t, i + 1)) /\ CharAt(t, i + 2) = "₹"

detectPrice(text) ==
    PriceDollar(text) \/ PriceRs(text) \/ PriceINR(text) \/ PriceRupee(text)

PositiveWords == {<<"g", "o", "o", "d">>, <<"g", "r", "e", "a", "t">>, <<"e", "x", "c", "e", "l", "l", "e", "n", "t">>, <<"p", "o", "s", "i", "t", "i", "v", "e">>, <<"l", "o", "v", "e">>, <<"l", "i", "k", "e">>}
NegativeWords == {<<"b", "a", "d">>, <<"t", "e", "r", "r", "i", "b", "l", "e">>, <<"a", "w", "f", "u", "l">>, <<"h", "a", "t", "e">>, <<"d", "i", "s", "l", "i", "k", "e">>, <<"p", "o", "o", "r">>}

\* (text.match(/\b(w1|w2|...)\b/gi) || []).length
CountWholeWords(text, words) ==
    LET t == toLowerCase(text)
    IN  Cardinality({p \in 1..Len(t) : \E w \in words : WholeWordAt(t, p, w)})

simpleSentiment(text) ==
    LET pos == CountWholeWords(text, PositiveWords)
        neg == CountWholeWords(text, NegativeWords)
    IN  IF pos > neg THEN "positive"
        ELSE IF neg > pos THEN "negative"
        ELSE "neutral"

-----------------------------------------------------------------------------
(* Prompt quality heuristic *)

\* prompt.trim().split(/\s+/).length : the whitespace-separated pieces of the
\* trimmed prompt; splitting the empty string yields one (empty) piece
SplitLength(prompt) ==
    Max(1, Cardinality({i \in 1..Len(prompt) :
        ~IsSpace(prompt[i]) /\ (i = 1 \/ IsSpace(prompt[i - 1]))}))

\* /a|b|c/i.test(text)
TestAny(text, terms) == LET t == toLowerCase(text) IN \E w \in terms : includes(t, w)

MarketingCore == {<<"p", "r", "o", "d", "u", "c", "t">>, <<"m", "a", "r", "k", "e", "t", "i", "n", "g">>, <<"d", "e", "s", "c", "r", "i", "p", "t", "i", "o", "n">>, <<"c", "o", "m", "p", "e", "l", "l", "i", "n", "g">>,
                  <<"f", "e", "a", "t", "u", "r", "e", "s">>, <<"b", "e", "n", "e", "f", "i", "t", "s">>, <<"c", "u", "s", "t", "o", "m", "e", "r">>}
MarketingExtra == {<<"c", "r", "e", "a", "t", "i", "v", "e">>, <<"i", "n", "n", "o", "v", "a", "t", "i", "v", "e">>, <<"u", "n", "i", "q", "u", "e">>, <<"b", "r", "a", "n", "d">>, <<"t", "a", "r", "g", "e", "t">>,
                   <<"a", "u", "d", "i", "e", "n", "c", "e">>}
BusinessCore == {<<"b", "u", "s", "i", "n", "e", "s", "s">>, <<"s", "t", "r", "a", "t", "e", "g", "y">>, <<"p", "l", "a", "n">>, <<"m", "a", "r", "k", "e", "t">>, <<"a", "n", "a", "l", "y", "s", "i", "s">>,
                 <<"f", "i", "n", "a", "n", "c", "i", "a", "l">>, <<"r", "e", "v", "e", "n", "u", "e">>, <<"g", "r", "o", "w", "t", "h">>}
BusinessExtra == {<<"c", "o", "m", "p", "e", "t", "i", "t", "i", "v", "e">>, <<"s", "c", "a", "l", "a", "b", "l", "e">>, <<"f", "u", "n", "d", "i", "n", "g">>, <<"t", "e", "a", "m">>,
                  <<"p", "r", "o", "j", "e", "c", "t", "i", "o", "n", "s">>, <<"r", "i", "s", "k">>, <<"m", "i", "t", "i", "g", "a", "t", "i", "o", "n">>}
ActionWords == {<<"c", "r", "e", "a", "t", "e">>, <<"g", "e", "n", "e", "r", "a", "t", "e">>, <<"d", "e", "v", "e", "l", "o", "p">>, <<"b", "u", "i", "l", "d">>, <<"d", "e", "s", "i", "g", "n">>, <<"w", "r", "i", "t", "e">>}
QualityWords == {<<"d", "e", "t", "a", "i", "l", "e", "d">>, <<"c", "o", "m", "p", "r", "e", "h", "e", "n", "s", "i", "v", "e">>, <<"s", "p", "e", "c", "i", "f", "i", "c">>, <<"p", "r", "o", "f", "e", "s", "s", "i", "o", "n", "a", "l">>,
                 <<"h", "i", "g", "h", "-", "q", "u", "a", "l", "i", "t", "y">>}

\* the score before the final clamp, in points
PromptRawScore(prompt, roundNum) ==
    LET words == SplitLength(prompt)
        len == IF words < 5 THEN -30
               ELSE IF words < 10 THEN -15
               ELSE IF words > 15 THEN 10
               ELSE 0
        core == IF roundNum = 1 /\ TestAny(prompt, MarketingCore) THEN 15
                ELSE IF roundNum = 3 /\ TestAny(prompt, BusinessCore) THEN 15
                ELSE 0
        extra == IF roundNum = 1 /\ TestAny(prompt, MarketingExtra) THEN 10
                 ELSE IF roundNum = 3 /\ TestAny(prompt, BusinessExtra) THEN 10
                 ELSE 0
        action == IF TestAny(prompt, ActionWords) THEN 5 ELSE 0
        quality == IF TestAny(prompt, QualityWords) THEN 8 ELSE 0
    IN  60 + len + core + extra + action + quality

\* in points
\* variant: the score without the final clamp
evaluatePromptQualityUnbounded(prompt, roundNum) == PromptRawScore(prompt, roundNum)

evaluatePromptQuality(prompt, roundNum) ==
    Max(20, Min(100, PromptRawScore(prompt, roundNum)))

-----------------------------------------------------------------------------
(* Reverse-engineering evaluator (round 2) *)

IncludesAny(response, markers) == \E w \in markers : includes(response, w)

ReconstructionMarkers == {<<"p", "r", "o", "m", "p", "t">>, <<"a", "s", "k">>, <<"w", "r", "i", "t", "e">>, <<"c", "r", "e", "a", "t", "e">>}
ReasoningMarkers == {<<"b", "e", "c", "a", "u", "s", "e">>, <<"l", "i", "k", "e", "l", "y">>, <<"s", "u", "g", "g", "e", "s", "t", "s">>, <<"i", "n", "d", "i", "c", "a", "t", "e", "s">>, <<"r", "e", "a", "s", "o", "n", "i", "n", "g">>}
AnalysisMarkers == {<<"s", "t", "y", "l", "e">>, <<"f", "o", "r", "m", "a", "t">>, <<"s", "t", "r", "u", "c", "t", "u", "r", "e">>, <<"d", "e", "t", "a", "i", "l">>}
ContextMarkers == {<<"r", "e", "c", "i", "p", "e">>, <<"c", "o", "o", "k", "i", "n", "g">>, <<"b", "a", "k", "i", "n", "g">>, <<"i", "n", "g", "r", "e", "d", "i", "e", "n", "t", "s">>}

\* the running score after the floor clamp, in hundredths
ReverseScore(userResponse) ==
    LET response == toLowerCase(userResponse)
        s1 == Pts(100) - (IF IncludesAny(response, ReconstructionMarkers) THEN 0 ELSE Pts(30))
        s2 == s1 - (IF IncludesAny(response, ReasoningMarkers) THEN 0 ELSE Pts(25))
        s3 == s2 + (IF IncludesAny(response, AnalysisMarkers) THEN Pts(10) ELSE 0)
        s4 == s3 - (IF IncludesAny(response, ContextMarkers) THEN 0 ELSE Pts(15))
    IN  IF s4 < 0 THEN 0 ELSE s4

ReverseViolations(userResponse) ==
    LET response == toLowerCase(userResponse)
    IN  (IF IncludesAny(response, ReconstructionMarkers) THEN <<>>
         ELSE << <<"missing_prompt_reconstruction">> >>)
        \o (IF IncludesAny(response, ReasoningMarkers) THEN <<>>
            ELSE << <<"missing_reasoning">> >>)
        \o (IF IncludesAny(response, ContextMarkers) THEN <<>>
            ELSE << <<"missing_context_understanding">> >>)

\* variant: the score is capped at 100
evaluateReverseEngineeringCapped(userResponse) ==
    [score |-> Min(Pts(100), ReverseScore(userResponse)),
     violations |-> ReverseViolations(userResponse)]

evaluateReverseEngineering(userResponse) ==
    [score |-> RoundDiv(ReverseScore(userResponse) * 100, 100),
     violations |-> ReverseViolations(userResponse)]

-----------------------------------------------------------------------------
(* Criteria evaluator.  A criteria object is a record holding just the     *)
(* fields that are present ('field' in criteria); a violation code is a    *)
(* tuple of the code's name and its arguments.                             *)

Has(criteria, field) == field \in DOMAIN criteria

\* penalties of the checks, in hundredths, in source order
\* variant: no penalty for 10 to 19 words
LengthPenaltyShortOnly(wc) == IF wc < 10 THEN Pts(30) ELSE 0

\* variant: one penalty of 15 for every output under 20 words
LengthPenaltyFlat(wc) == IF wc < 20 THEN Pts(15) ELSE 0

LengthPenalty(wc) ==
    IF wc < 10 THEN Pts(30) ELSE IF wc < 20 THEN Pts(15) ELSE 0

\* variant: the signed difference instead of its absolute value
WordCountPenaltySigned(wc, criteria) ==
    IF Has(criteria, "wordCount") /\ wc # criteria.wordCount
    THEN Min(Pts(25), (wc - criteria.wordCount) * 150)
    ELSE 0

WordCountPenalty(wc, criteria) ==
    IF Has(criteria, "wordCount") /\ wc # criteria.wordCount
    THEN Min(Pts(25), Abs(wc - criteria.wordCount) * 150)
    ELSE 0

MaxWordsPenalty(wc, criteria) ==
    IF Has(criteria, "maxWords") /\ wc > criteria.maxWords
    THEN Min(Pts(25), (wc - criteria.maxWords) * 120)
    ELSE 0

PricePenalty(output, criteria) ==
    IF Has(criteria, "containsPrice")
    THEN LET wantsPrice == criteria.containsPrice
             hasPrice == detectPrice(output)
         IN  (IF wantsPrice /\ ~hasPrice THEN Pts(15) ELSE 0)
             + (IF ~wantsPrice /\ hasPrice THEN Pts(5) ELSE 0)
    ELSE 0

MissingElements(output, criteria) ==
    IF Has(criteria, "requiredElements")
    THEN containsRequired(output, criteria.requiredElements)
    ELSE <<>>

FoundForbidden(output, criteria) ==
    IF Has(criteria, "forbiddenWords")
    THEN findForbidden(output, criteria.forbiddenWords)
    ELSE <<>>

SentimentMismatch(output, criteria) ==
    Has(criteria, "sentiment") /\ criteria.sentiment # simpleSentiment(output)

\* variant: the evaluation stops at the first failing check
RunningScoreShortCircuit(output, criteria) ==
    LET wc == countWords(output)
    IN  IF LengthPenalty(wc) > 0 THEN Pts(70) - LengthPenalty(wc)
        ELSE IF WordCountPenalty(wc, criteria) > 0
        THEN Pts(70) - WordCountPenalty(wc, criteria)
        ELSE IF MaxWordsPenalty(wc, criteria) > 0
        THEN Pts(70) - MaxWordsPenalty(wc, criteria)
        ELSE IF PricePenalty(output, criteria) > 0
        THEN Pts(70) - PricePenalty(output, criteria)
        ELSE IF Len(MissingElements(output, criteria)) > 0
        THEN Pts(70) - Pts(12) * Len(MissingElements(output, criteria))
        ELSE IF Len(FoundForbidden(output, criteria)) > 0
        THEN Pts(70) - Pts(15) * Len(FoundForbidden(output, criteria))
        ELSE IF SentimentMismatch(output, criteria) THEN Pts(70) - Pts(8)
        ELSE Pts(70)

\* the running score before the floor clamp, in hundredths
RunningScore(output, criteria) ==
    LET wc == countWords(output)
    IN  Pts(70)
        - LengthPenalty(wc)
        - WordCountPenalty(wc, criteria)
        - MaxWordsPenalty(wc, criteria)
        - PricePenalty(output, criteria)
        - Pts(12) * Len(MissingElements(output, criteria))
        - Pts(15) * Len(FoundForbidden(output, criteria))
        - (IF SentimentMismatch(output, criteria) THEN Pts(8) ELSE 0)

\* variant: the running score without the floor at zero
UnclampedScore(output, criteria) == RunningScore(output, criteria)

\* if (score < 0) score = 0 : the score before the round multiplier
ClampedScore(output, criteria) ==
    LET score == RunningScore(output, criteria)
    IN  IF score < 0 THEN 0 ELSE score

CriteriaViolations(output, criteria) ==
    LET wc == countWords(output)
        missing == MissingElements(output, criteria)
        found == FoundForbidden(output, criteria)
    IN  (IF wc < 10 THEN << <<"too_short">> >>
         ELSE IF wc < 20 THEN << <<"very_brief">> >> ELSE <<>>)
        \o (IF Has(criteria, "wordCount") /\ wc # criteria.wordCount
            THEN << <<"wordCount", wc, criteria.wordCount>> >> ELSE <<>>)
        \o (IF Has(criteria, "maxWords") /\ wc > criteria.maxWords
            THEN << <<"exceeded_maxWords", wc, criteria.maxWords>> >> ELSE <<>>)
        \o (IF Has(criteria, "containsPrice") /\ criteria.containsPrice
               /\ ~detectPrice(output)
            THEN << <<"missing_price">> >> ELSE <<>>)
        \o (IF Has(criteria, "containsPrice") /\ ~criteria.containsPrice
               /\ detectPrice(output)
            THEN << <<"unexpected_price">> >> ELSE <<>>)
        \o (IF Len(missing) > 0 THEN << <<"missing_elements", missing>> >> ELSE <<>>)
        \o (IF Len(found) > 0 THEN << <<"forbidden_words", found>> >> ELSE <<>>)
        \o (IF SentimentMismatch(output, criteria)
            THEN << <<"sentiment_mismatch", criteria.sentiment, simpleSentiment(output)>> >>
            ELSE <<>>)

\* variant: the multiplied score is capped at 100 points
evaluateOutputAgainstCriteriaCapped(output, criteria, roundMultiplier) ==
    [score |-> Min(Pts(100), RoundDiv(ClampedScore(output, criteria) * roundMultiplier, 10)),
     violations |-> CriteriaViolations(output, criteria)]

\* variant: an evaluator that reads the store, losing a point per stored submission
evaluateOutputAgainstCriteriaStateful(output, criteria, roundMultiplier) ==
    [score |-> Max(0, RoundDiv(ClampedScore(output, criteria) * roundMultiplier, 10)
                      - Pts(Len(submissions))),
     violations |-> CriteriaViolations(output, criteria)]

\* roundMultiplier in tenths; score = Math.round(score * roundMultiplier * 100) / 100
evaluateOutputAgainstCriteria(output, criteria, roundMultiplier) ==
    [score |-> RoundDiv(ClampedScore(output, criteria) * roundMultiplier, 10),
     violations |-> CriteriaViolations(output, criteria)]

-----------------------------------------------------------------------------
(* Optional values (null / undefined) are sequences of length at most one. *)

None == <<>>
Some(x) == <<x>>

-----------------------------------------------------------------------------
(* Team progress snapshot: GET /api/teams/:id/progress *)

PASSING_THRESHOLD == 60

\* Math.max(acc, ...scores)
RECURSIVE MathMax(_, _)
MathMax(acc, scores) ==
    IF scores = <<>> THEN acc
    ELSE MathMax(IF Head(scores) > acc THEN Head(scores) ELSE acc, Tail(scores))

\* submissions.filter(s => s.round === roundNum)
RoundSubmissions(subs, roundNum) == SelectSeq(subs, LAMBDA s : s.round = Some(roundNum))

\* variant: the newest attempt's score instead of the best one
BestScoreLatest(subs, roundNum) ==
    LET roundSubmissions == RoundSubmissions(subs, roundNum)
    IN  IF roundSubmissions = <<>> THEN 0 ELSE roundSubmissions[1].score

\* Math.max(0, ...roundSubmissions.map(s => s.score))
BestScore(subs, roundNum) ==
    LET roundSubmissions == RoundSubmissions(subs, roundNum)
    IN  MathMax(0, [i \in 1..Len(roundSubmissions) |-> roundSubmissions[i].score])

\* variant: looks at the round itself instead of the round before it
isPreviousRoundCompletedSameRound(subs, round) ==
    IF round <= 1 THEN TRUE
    ELSE BestScore(subs, round) >= Pts(PASSING_THRESHOLD)

isPreviousRoundCompleted(subs, round) ==
    IF round <= 1 THEN TRUE
    ELSE BestScore(subs, round - 1) >= Pts(PASSING_THRESHOLD)

\* variant: round 3 opens on the completion of round 1
AccessibleAfterRound1(subs, roundNum) ==
    IF roundNum = 1 THEN TRUE
    ELSE isPreviousRoundCompleted(subs, 2)

\* accessible, computed while `locked` still holds its initial value false
Accessible(subs, roundNum) ==
    LET locked == FALSE
    IN  IF roundNum = 1 THEN TRUE
        ELSE IF roundNum = 2 THEN isPreviousRoundCompleted(subs, roundNum) /\ ~locked
        ELSE IF roundNum = 3 THEN isPreviousRoundCompleted(subs, roundNum)
        ELSE FALSE

\* variant: round 1 is locked by the completion of round 2
LockedShifted(subs, roundNum) ==
    IF roundNum \in {1, 2} THEN isPreviousRoundCompleted(subs, 3)
    ELSE FALSE

Locked(subs, roundNum) ==
    IF roundNum = 1 THEN isPreviousRoundCompleted(subs, 2)
    ELSE IF roundNum = 2 THEN isPreviousRoundCompleted(subs, 3)
    ELSE FALSE

\* bestScore > 0 ? bestScore : null
ReportedBestScore(subs, roundNum) ==
    IF BestScore(subs, roundNum) > 0 THEN Some(BestScore(subs, roundNum)) ELSE None

LevelOf(subs, roundNum) ==
    [round |-> roundNum,
     unlocked |-> isPreviousRoundCompleted(subs, roundNum),
     accessible |-> Accessible(subs, roundNum),
     locked |-> Locked(subs, roundNum),
     completed |-> BestScore(subs, roundNum) >= Pts(PASSING_THRESHOLD),
     bestScore |-> ReportedBestScore(subs, roundNum),
     attempts |-> Len(RoundSubmissions(subs, roundNum))]

roundProgress(subs) == [roundNum \in 1..3 |-> LevelOf(subs, roundNum)]

RECURSIVE Reverse(_)
Reverse(s) == IF s = <<>> THEN <<>> ELSE Append(Reverse(Tail(s)), Head(s))

\* variant: the query returns the team's newest submission only
findManyNewest(table, teamId) ==
    LET rows == Reverse(SelectSeq(table, LAMBDA s : s.teamId = teamId))
    IN  IF rows = <<>> THEN <<>> ELSE <<rows[1]>>

\* prisma.submission.findMany({ where: { teamId }, orderBy: { createdAt: 'desc' } })
findMany(table, teamId) == Reverse(SelectSeq(table, LAMBDA s : s.teamId = teamId))

-----------------------------------------------------------------------------
(* Round scoring policy of POST /api/submit-prompt *)

\* variant: an unknown round continues the progression, 2.5 for round 4
MultiplierByOrder(roundNum) == 5 + 5 * roundNum

\* roundNum === 1 ? 1.0 : roundNum === 2 ? 1.5 : roundNum === 3 ? 2.0 : 1.0, in tenths
Multiplier(roundNum) ==
    IF roundNum = 1 THEN 10
    ELSE IF roundNum = 2 THEN 15
    ELSE IF roundNum = 3 THEN 20
    ELSE 10

\* const roundNum = round || 1  (absent, null and 0 are falsy)
RoundNumOf(body) ==
    IF Has(body, "round") /\ body.round # 0 THEN body.round ELSE 1

\* round ?? null
StoredRound(body) == IF Has(body, "round") THEN Some(body.round) ELSE None

\* the criteria built from the request's constraints
SubmitCriteria(constraintsObj) ==
    (IF Has(constraintsObj, "maxWords")
     THEN [maxWords |-> constraintsObj.maxWords] ELSE <<>>)
    @@ (IF Has(constraintsObj, "forbiddenWords")
        THEN [forbiddenWords |-> constraintsObj.forbiddenWords] ELSE <<>>)

\* variant: the output evaluator already applies the round multiplier, which
\* the handler then applies a second time
scoreSubmissionDoubleApplied(prompt, llmResp, roundNum, constraintsObj) ==
    LET multiplier == Multiplier(roundNum)
    IN  IF roundNum = 2
        THEN LET e == evaluateReverseEngineering(prompt)
             IN  [score |-> RoundDiv(e.score * multiplier, 10),
                  violations |-> e.violations]
        ELSE LET e == evaluateOutputAgainstCriteria(llmResp, SubmitCriteria(constraintsObj),
                                                    multiplier)
                 promptScore == evaluatePromptQuality(prompt, roundNum)
             IN  [score |-> RoundDiv((6 * e.score + 400 * promptScore) * multiplier, 100),
                  violations |-> e.violations]

\* variant: round 2 is scored like rounds 1 and 3, from the generated output
\* and the prompt quality
scoreSubmissionCombinedOnly(prompt, llmResp, roundNum, constraintsObj) ==
    LET multiplier == Multiplier(roundNum)
        e == evaluateOutputAgainstCriteria(llmResp, SubmitCriteria(constraintsObj), 10)
        promptScore == evaluatePromptQuality(prompt, roundNum)
    IN  [score |-> RoundDiv((6 * e.score + 400 * promptScore) * multiplier, 100),
         violations |-> e.violations]

\* variant: 40% output quality and 60% prompt quality
scoreSubmissionWeightsSwapped(prompt, llmResp, roundNum, constraintsObj) ==
    LET multiplier == Multiplier(roundNum)
    IN  IF roundNum = 2
        THEN LET e == evaluateReverseEngineering(prompt)
             IN  [score |-> RoundDiv(e.score * multiplier, 10),
                  violations |-> e.violations]
        ELSE LET e == evaluateOutputAgainstCriteria(llmResp, SubmitCriteria(constraintsObj), 10)
                 promptScore == evaluatePromptQuality(prompt, roundNum)
             IN  [score |-> RoundDiv((4 * e.score + 600 * promptScore) * multiplier, 100),
                  violations |-> e.violations]

\* evalResult of the submit-prompt handler; combinedScore = 0.6 * output + 0.4 * prompt
scoreSubmission(prompt, llmResp, roundNum, constraintsObj) ==
    LET multiplier == Multiplier(roundNum)
    IN  IF roundNum = 2
        THEN LET e == evaluateReverseEngineering(prompt)
             IN  [score |-> RoundDiv(e.score * multiplier, 10),
                  violations |-> e.violations]
        ELSE LET e == evaluateOutputAgainstCriteria(llmResp, SubmitCriteria(constraintsObj), 10)
                 promptScore == evaluatePromptQuality(prompt, roundNum)
             IN  [score |-> RoundDiv((6 * e.score + 400 * promptScore) * multiplier, 100),
                  violations |-> e.violations]

\* variant: the total is updated whatever the score, as the earlier copy of the
\* handler did
PassedUnconditionally(score) == TRUE

Passed(score) == score >= Pts(PASSING_THRESHOLD)

-----------------------------------------------------------------------------
(* Seed catalog and criteria merge of POST /api/challenges/:round/:challengeId/score *)

SEED_ROUNDS ==
    << [order |-> 1,
        challenges |-> << [slug |-> "precision-product-description",
                           constraints |->
                               [maxWords |-> 75,
                                forbiddenWords |-> <<<<"r", "e", "v", "o", "l", "u", "t", "i", "o", "n", "a", "r", "y">>, <<"g", "r", "o", "u", "n", "d", "b", "r", "e", "a", "k", "i", "n", "g">>,
                                                     <<"u", "n", "p", "r", "e", "c", "e", "d", "e", "n", "t", "e", "d">>, <<"g", "a", "m", "e", "-", "c", "h", "a", "n", "g", "i", "n", "g">>,
                                                     <<"w", "o", "r", "l", "d", "-", "c", "l", "a", "s", "s">>>>,
                                requiredElements |-> <<<<"₹">>, <<"b", "a", "t", "t", "e", "r", "y">>, <<"c", "a", "m", "e", "r", "a">>,
                                                       <<"m", "A", "h">>>>]] >>],
       [order |-> 2,
        challenges |-> << [slug |-> "reverse-engineer-recipe"] >>],
       [order |-> 3,
        challenges |-> << [slug |-> "startup-business-plan"] >>] >>

Pick(rec, field) == IF Has(rec, field) THEN [f \in {field} |-> rec[field]] ELSE <<>>

\* criteria || expectedCriteria || {}
BaseCriteria(body) ==
    IF Has(body, "criteria") THEN body.criteria
    ELSE IF Has(body, "expectedCriteria") THEN body.expectedCriteria
    ELSE <<>>

\* variant: criteria supplied by the caller replace the catalog's as a whole
MergedCriteriaCallerReplaces(ch, baseCriteria) ==
    IF baseCriteria # <<>> THEN baseCriteria
    ELSE IF Has(ch, "constraints") THEN ch.constraints
    ELSE <<>>

\* the object spread: a later entry overrides an earlier one
MergedCriteria(ch, baseCriteria) ==
    LET constraintCriteria == IF Has(ch, "constraints") THEN ch.constraints ELSE <<>>
        fromCatalog ==
            (IF Has(constraintCriteria, "maxWords") /\ constraintCriteria.maxWords # 0
             THEN [maxWords |-> constraintCriteria.maxWords] ELSE <<>>)
            @@ Pick(constraintCriteria, "forbiddenWords")
            @@ Pick(constraintCriteria, "requiredElements")
        fromCaller ==
            Pick(baseCriteria, "wordCount") @@ Pick(baseCriteria, "maxWords")
            @@ Pick(baseCriteria, "containsPrice")
            @@ Pick(baseCriteria, "requiredElements")
            @@ Pick(baseCriteria, "forbiddenWords") @@ Pick(baseCriteria, "sentiment")
    IN  fromCaller @@ fromCatalog

-----------------------------------------------------------------------------
(* Request inputs *)

MaxReq == 2       \* concurrent HTTP requests
MaxSubs == 3      \* rows of the Submission table written by manual submissions
MaxPad == 20      \* filler words prepended to an evaluated output

Requests == 1..MaxReq
Teams == {"t1"}

\* "hi"
PromptTerse == <<"h", "i">>
\* spec scenario C
PromptRich == <<"W", "r", "i", "t", "e", " ", "a", " ", "d", "e", "t", "a", "i", "l", "e", "d", " ", "c", "o", "m", "p", "r", "e", "h", "e", "n", "s", "i", "v", "e", " ", "m", "a", "r", "k", "e", "t", "i", "n", "g", " ", "p", "l", "a", "n", " ", "f", "o", "r", " ", "o", "u", "r", " ", "n", "e", "w", " ", "p", "r", "o", "d", "u", "c", "t", " ", "t", "a", "r", "g", "e", "t", "i", "n", "g", " ", "y", "o", "u", "n", "g", " ", "c", "u", "s", "t", "o", "m", "e", "r", "s">>
\* names a reconstruction, a reasoning, an analysis and a context marker
PromptReverse == <<"t", "h", "e", " ", "p", "r", "o", "m", "p", "t", " ", "l", "i", "k", "e", "l", "y", " ", "a", "s", "k", "e", "d", " ", "f", "o", "r", " ", "a", " ", "r", "e", "c", "i", "p", "e", " ", "i", "n", " ", "t", "h", "i", "s", " ", "s", "t", "y", "l", "e">>
Prompts == {PromptTerse, PromptRich}

OutputEmpty == <<>>
\* 21 words, with the seed challenge's required elements
OutputFull == <<"M", "e", "e", "t", " ", "t", "h", "e", " ", "n", "e", "w", " ", "p", "h", "o", "n", "e", " ", "f", "o", "r", " ", "j", "u", "s", "t", " ", "9", "9", "9", "9", " ", "₹", " ", "w", "i", "t", "h", " ", "a", " ", "5", "0", "0", "0", "m", "A", "h", " ", "b", "a", "t", "t", "e", "r", "y", " ", "a", "n", "d", " ", "a", " ", "1", "0", "8", "M", "P", " ", "c", "a", "m", "e", "r", "a", " ", "m", "a", "d", "e", " ", "f", "o", "r", " ", "s", "t", "u", "d", "e", "n", "t", "s", " ", "w", "h", "o", " ", "w", "a", "n", "t", " ", "s", "p", "e", "e", "d">>
\* 2 words
OutputShort == <<"g", "r", "e", "a", "t", " ", "p", "h", "o", "n", "e">>
\* what callGroq returns: '' when the reply has no content
GeneratedOutputs == {OutputEmpty, OutputFull}

\* 0 is falsy for `round || 1` and is stored as it is; 4 is no round of the event
RoundInputs == 0..4

ConstraintInputs == {[maxWords |-> 10, forbiddenWords |-> <<<<"p", "h", "o", "n", "e">>>>]}

SubmitBodies ==
    {t @@ r @@ p @@ c :
        t \in {<<>>, [teamId |-> "t1"], [teamId |-> "ghost"]},
        r \in {<<>>} \cup {[round |-> n] : n \in RoundInputs},
        p \in {<<>>, [prompt |-> <<>>]} \cup {[prompt |-> x] : x \in Prompts},
        c \in {<<>>} \cup {[constraints |-> x] : x \in ConstraintInputs}}

CriteriaOverrides == {[maxWords |-> 10]}

ScoreBodies ==
    {t @@ o @@ c :
        t \in {<<>>, [teamId |-> "t1"], [teamId |-> "ghost"]},
        o \in {<<>>} \cup {[llmOutput |-> x] : x \in {OutputEmpty, OutputShort, OutputFull}},
        c \in {<<>>} \cup {[criteria |-> x] : x \in CriteriaOverrides}}

-----------------------------------------------------------------------------
(* Handler frames.  A request that has not arrived is idle; while it is    *)
(* served its frame holds the handler's locals; once answered it is done   *)
(* and holds the response alone.                                           *)

IdleFrame == [pc |-> "idle"]

\* variant: every response is sent with status 200
ReplyAlwaysOk(handler, status, response) ==
    [pc |-> "done", handler |-> handler, status |-> 200, response |-> response]

Reply(handler, status, response) ==
    [pc |-> "done", handler |-> handler, status |-> status, response |-> response]

\* variant: an error response that carries a default score
FailureWithDefaultScore(detail) == [success |-> FALSE, detail |-> detail, score |-> 0]

Failure(detail) == [success |-> FALSE, detail |-> detail]

\* the frame with some locals added or changed
With(frame, locals) == locals @@ frame

\* prisma.team.findUnique({ where: { id } })
findUnique(teamId) ==
    IF teamId \in DOMAIN teamScore
    THEN Some([id |-> teamId, score |-> teamScore[teamId]])
    ELSE None

-----------------------------------------------------------------------------
(* POST /api/submit-prompt, one action per await *)

\* requests are numbered in their order of arrival
Arrives(r) ==
    /\ req[r].pc = "idle"
    /\ \A q \in Requests : q < r => req[q].pc # "idle"

ConstraintsOf(body) == IF Has(body, "constraints") THEN body.constraints ELSE <<>>

\* scoreSubmission on the inputs a request can carry, tabulated
SubmitScores ==
    [p \in Prompts, o \in GeneratedOutputs, n \in 1..4, c \in {<<>>} \cup ConstraintInputs |->
        scoreSubmission(p, o, n, c)]

\* the evaluators on the inputs a request can carry, tabulated
ReverseResults == [p \in Prompts |-> evaluateReverseEngineering(p)]

OutputResults ==
    [o \in GeneratedOutputs, c \in {<<>>} \cup ConstraintInputs |->
        evaluateOutputAgainstCriteria(o, SubmitCriteria(c), 10)]

PromptScores == [p \in Prompts, n \in 1..4 |-> evaluatePromptQuality(p, n)]

\* the score endpoint's evaluation before the round multiplier
CatalogResults ==
    [round \in 1..Len(SEED_ROUNDS), o \in {OutputShort, OutputFull},
     c \in {<<>>} \cup CriteriaOverrides |->
        evaluateOutputAgainstCriteria(o,
            MergedCriteria(SEED_ROUNDS[round].challenges[1], c), 10)]

\* validation and the team lookup
SubmitPromptStart(r) ==
    /\ Arrives(r)
    /\ \E body \in SubmitBodies :
        req' = [req EXCEPT ![r] =
            IF ~Has(body, "teamId") \/ ~Has(body, "prompt") \/ body.prompt = <<>>
            THEN Reply("submit-prompt", 400, Failure("teamId and prompt required"))
            ELSE IF findUnique(body.teamId) = None
            THEN Reply("submit-prompt", 404, Failure("Team not found"))
            ELSE [pc |-> "generating", handler |-> "submit-prompt", body |-> body,
                  team |-> findUnique(body.teamId)[1]]]
    /\ UNCHANGED <<teamScore, submissions, evalIn, evalOut, history, levels>>

\* callGroq returns the generated text, or '' for a reply without content;
\* the evaluation follows with no write in between
SubmitPromptGenerated(r) ==
    /\ req[r].pc = "generating"
    /\ \E llmResp \in GeneratedOutputs :
        LET body == req[r].body
            roundNum == RoundNumOf(body)
            evalResult == SubmitScores[body.prompt, llmResp, roundNum, ConstraintsOf(body)]
        IN  req' = [req EXCEPT ![r] =
                With(@, [pc |-> "creating", llmResp |-> llmResp, roundNum |-> roundNum,
                         evalResult |-> evalResult, passed |-> Passed(evalResult.score)])]
    /\ UNCHANGED <<teamScore, submissions, evalIn, evalOut, history, levels>>

\* callGroq throws: the catch block answers 500
SubmitPromptGenerationFails(r) ==
    /\ req[r].pc = "generating"
    /\ req' = [req EXCEPT ![r] = Reply("submit-prompt", 500, Failure("Internal server error"))]
    /\ UNCHANGED <<teamScore, submissions, evalIn, evalOut, history, levels>>

\* variant: the handler moves on to the total without writing the record
SubmitPromptCreateSkipped(r) ==
    /\ req[r].pc = "creating"
    /\ req[r].handler = "submit-prompt"
    /\ req' = [req EXCEPT ![r] = With(@, [pc |-> "updating"])]
    /\ UNCHANGED <<teamScore, submissions, evalIn, evalOut, history, levels>>

\* prisma.submission.create, then the failure response when the attempt did not pass
SubmitPromptCreate(r) ==
    /\ req[r].pc = "creating"
    /\ req[r].handler = "submit-prompt"
    /\ submissions' = Append(submissions,
            [teamId |-> req[r].body.teamId, round |-> StoredRound(req[r].body),
             score |-> req[r].evalResult.score])
    /\ req' = [req EXCEPT ![r] =
            IF @.passed
            THEN With(@, [pc |-> "updating"])
            ELSE Reply("submit-prompt", 200,
                     [success |-> TRUE, passed |-> FALSE, response |-> @.llmResp,
                      score |-> @.evalResult.score,
                      message |-> [text |-> "Put more effort! You need at least",
                                   points |-> PASSING_THRESHOLD],
                      threshold |-> PASSING_THRESHOLD])]
    /\ UNCHANGED <<teamScore, evalIn, evalOut, history, levels>>

\* prisma.team.update with the total read at the start, then the success response
SubmitPromptUpdate(r) ==
    /\ req[r].pc = "updating"
    /\ req[r].handler = "submit-prompt"
    /\ teamScore' = [teamScore EXCEPT ![req[r].body.teamId] =
            req[r].team.score + req[r].evalResult.score]
    /\ req' = [req EXCEPT ![r] =
            Reply("submit-prompt", 200,
                [success |-> TRUE, passed |-> TRUE, response |-> @.llmResp,
                 score |-> @.evalResult.score,
                 message |-> [text |-> "Congratulations! You passed Round",
                              round |-> @.roundNum]])]
    /\ UNCHANGED <<submissions, evalIn, evalOut, history, levels>>

\* a database write throws: the catch block answers 500
WriteFails(r) ==
    /\ req[r].pc \in {"creating", "updating"}
    /\ req' = [req EXCEPT ![r] = Reply(@.handler, 500, Failure("Internal server error"))]
    /\ UNCHANGED <<teamScore, submissions, evalIn, evalOut, history, levels>>

-----------------------------------------------------------------------------
(* POST /api/challenges/:round/:challengeId/score, one action per await *)

RoundParams == 1..4
ChallengeParams == 1..2

\* the merged criteria and the evaluation on the inputs a request can carry, tabulated
ScoreResults ==
    [round \in 1..Len(SEED_ROUNDS), o \in {OutputShort, OutputFull},
     c \in {<<>>} \cup CriteriaOverrides |->
        evaluateOutputAgainstCriteria(o,
            MergedCriteria(SEED_ROUNDS[round].challenges[1], c),
            Multiplier(SEED_ROUNDS[round].order))]

\* validation, catalog lookup, evaluation and the team lookup
ScoreStart(r) ==
    /\ Arrives(r)
    /\ \E round \in RoundParams, challengeId \in ChallengeParams, body \in ScoreBodies :
        req' = [req EXCEPT ![r] =
            IF ~Has(body, "llmOutput") \/ body.llmOutput = <<>>
            THEN Reply("score", 400, Failure("llmOutput is required"))
            ELSE IF round - 1 < 0 \/ round - 1 >= Len(SEED_ROUNDS)
            THEN Reply("score", 400, Failure("Invalid round index"))
            ELSE IF challengeId - 1 < 0 \/ challengeId - 1 >= Len(SEED_ROUNDS[round].challenges)
            THEN Reply("score", 400, Failure("Invalid challenge index"))
            ELSE
                LET roundDef == SEED_ROUNDS[round]
                    ch == roundDef.challenges[challengeId]
                    result == ScoreResults[round, body.llmOutput, BaseCriteria(body)]
                    locals == [handler |-> "score", body |-> body,
                               roundNum |-> roundDef.order, result |-> result]
                IN  IF ~Has(body, "teamId")
                    THEN Reply("score", 200,
                             [success |-> TRUE, round |-> roundDef.order,
                              score |-> result.score, violations |-> result.violations])
                    ELSE IF findUnique(body.teamId) = None
                    THEN Reply("score", 404, Failure("Team not found"))
                    ELSE With(locals, [pc |-> "creating",
                                       team |-> findUnique(body.teamId)[1]])]
    /\ UNCHANGED <<teamScore, submissions, evalIn, evalOut, history, levels>>

\* prisma.submission.create
ScoreCreate(r) ==
    /\ req[r].pc = "creating"
    /\ req[r].handler = "score"
    /\ submissions' = Append(submissions,
            [teamId |-> req[r].body.teamId, round |-> Some(req[r].roundNum),
             score |-> req[r].result.score])
    /\ req' = [req EXCEPT ![r] = With(@, [pc |-> "updating"])]
    /\ UNCHANGED <<teamScore, evalIn, evalOut, history, levels>>

\* prisma.team.update with the total read at the start, then the response
ScoreUpdate(r) ==
    /\ req[r].pc = "updating"
    /\ req[r].handler = "score"
    /\ teamScore' = [teamScore EXCEPT ![req[r].body.teamId] =
            req[r].team.score + req[r].result.score]
    /\ req' = [req EXCEPT ![r] =
            Reply("score", 200,
                [success |-> TRUE, round |-> @.roundNum,
                 score |-> @.result.score, violations |-> @.result.violations])]
    /\ UNCHANGED <<submissions, evalIn, evalOut, history, levels>>

-----------------------------------------------------------------------------
(* The server: requests of both scoring endpoints, interleaved at awaits *)

NoCall == [kind |-> "none"]

Init ==
    /\ teamScore = [t \in Teams |-> 0]
    /\ submissions = <<>>
    /\ req = [r \in Requests |-> IdleFrame]
    /\ evalIn = NoCall
    /\ evalOut = None
    /\ history = <<>>
    /\ levels = <<>>

Next ==
    \E r \in Requests :
        \/ SubmitPromptStart(r)
        \/ SubmitPromptGenerated(r)
        \/ SubmitPromptGenerationFails(r)
        \/ SubmitPromptCreate(r)
        \/ SubmitPromptUpdate(r)
        \/ ScoreStart(r)
        \/ ScoreCreate(r)
        \/ ScoreUpdate(r)
        \/ WriteFails(r)

Spec == Init /\ [][Next]_vars

\* the same server when each request is answered before the next one arrives
Serial(r) == \A q \in Requests \ {r} : req[q].pc \in {"idle", "done"}

SerialNext ==
    \E r \in Requests :
        \/ Serial(r) /\ SubmitPromptStart(r)
        \/ SubmitPromptGenerated(r)
        \/ SubmitPromptGenerationFails(r)
        \/ SubmitPromptCreate(r)
        \/ SubmitPromptUpdate(r)
        \/ Serial(r) /\ ScoreStart(r)
        \/ ScoreCreate(r)
        \/ ScoreUpdate(r)
        \/ WriteFails(r)

SerialSpec == Init /\ [][SerialNext]_vars

-----------------------------------------------------------------------------
(* POST /api/submissions and GET /api/teams/:id/progress *)

\* hundredths: -5, 60 and 75 points; a body without a score stores 0
ManualScores == {-500, 6000, 7500}

ManualBodies ==
    {t @@ p @@ r @@ s :
        t \in {<<>>, [teamId |-> "t1"], [teamId |-> "ghost"]},
        p \in {<<>>, [prompt |-> PromptTerse]},
        r \in {<<>>} \cup {[round |-> n] : n \in 1..3},
        s \in {<<>>} \cup {[score |-> x] : x \in ManualScores}}

CreateSubmission ==
    /\ Len(submissions) < MaxSubs
    /\ \E body \in ManualBodies :
        /\ Has(body, "teamId")
        /\ Has(body, "prompt") /\ body.prompt # <<>>
        /\ findUnique(body.teamId) # None
        /\ submissions' = Append(submissions,
                [teamId |-> body.teamId, round |-> StoredRound(body),
                 score |-> IF Has(body, "score") THEN body.score ELSE 0])
    /\ UNCHANGED <<teamScore, req, evalIn, evalOut, history, levels>>

GetProgress ==
    /\ \E id \in Teams :
        /\ findUnique(id) # None
        /\ history' = findMany(submissions, id)
        /\ levels' = roundProgress(findMany(submissions, id))
    /\ UNCHANGED <<teamScore, submissions, req, evalIn, evalOut>>

ProgressNext == CreateSubmission \/ GetProgress

ProgressSpec == Init /\ [][ProgressNext]_vars

-----------------------------------------------------------------------------
(* Scoring requests, answered one at a time, and progress snapshots between them *)

JourneyNext == SerialNext \/ GetProgress

JourneySpec == Init /\ [][JourneyNext]_vars

-----------------------------------------------------------------------------
(* Direct calls of the evaluators on drawn inputs *)

\* n filler words "w "
Pad(n) == [i \in 1..(2 * n) |-> IF i % 2 = 1 THEN "w" ELSE " "]

PadCounts == {0, MaxPad \div 2, MaxPad}

Phrases ==
    { <<>>,
      <<"g", "r", "e", "a", "t", " ", "v", "a", "l", "u", "e", " ", "f", "o", "r", " ", "$", "9", "9">>,
      <<"b", "a", "d", " ", "c", "a", "m", "e", "r", "a", " ", "a", "n", "d", " ", "p", "o", "o", "r", " ", "b", "a", "t", "t", "e", "r", "y", " ", "5", "0", "0", "0", "m", "A", "h", " ", "9", "9", " ", "₹">>,
      <<"a", "n", " ", "A", "m", "a", "z", "i", "n", "g", " ", "g", "a", "m", "e", "-", "c", "h", "a", "n", "g", "i", "n", "g", " ", "p", "h", "o", "n", "e">> }

EvalOutputs == {Pad(n) \o phrase : n \in PadCounts, phrase \in Phrases}

CriteriaInputs ==
    {a @@ b @@ c @@ d @@ e @@ f :
        a \in {<<>>, [wordCount |-> 12]},
        b \in {<<>>, [maxWords |-> 5]},
        c \in {<<>>, [containsPrice |-> TRUE], [containsPrice |-> FALSE]},
        d \in {<<>>, [requiredElements |-> <<<<"₹">>, <<"b", "a", "t", "t", "e", "r", "y">>>>],
               [requiredElements |-> <<<<"a", "1">>, <<"b", "2">>, <<"c", "3">>, <<"d", "4">>, <<"e", "5">>, <<"f", "6">>>>]},
        e \in {<<>>, [forbiddenWords |-> <<<<"a", "m", "a", "z", "i", "n", "g">>, <<"g", "r", "e", "a", "t">>>>]},
        f \in {<<>>, [sentiment |-> "positive"], [sentiment |-> "negative"]}}

\* spec scenario A
ScenarioAOutput == <<"G", "r", "e", "a", "t", " ", "p", "r", "o", "d", "u", "c", "t", "!", " ", "A", "m", "a", "z", "i", "n", "g", " ", "v", "a", "l", "u", "e", " ", "f", "o", "r", " ", "j", "u", "s", "t", " ", "$", "9", "9", " ", "w", "i", "t", "h", " ", "a", " ", "5", "0", "0", "0", "m", "A", "h", " ", "b", "a", "t", "t", "e", "r", "y", " ", "a", "n", "d", " ", "1", "0", "8", "M", "P", " ", "c", "a", "m", "e", "r", "a", ".">>

ScenarioACriteria ==
    [maxWords |-> 75, forbiddenWords |-> <<<<"a", "m", "a", "z", "i", "n", "g">>>>,
     requiredElements |-> <<<<"₹">>, <<"b", "a", "t", "t", "e", "r", "y">>, <<"c", "a", "m", "e", "r", "a">>>>]

CriteriaCalls ==
    {[kind |-> "criteria", output |-> o, criteria |-> c, roundMultiplier |-> m] :
        o \in EvalOutputs, c \in CriteriaInputs, m \in {10, 15, 20}}
    \cup {[kind |-> "criteria", output |-> ScenarioAOutput, criteria |-> ScenarioACriteria,
           roundMultiplier |-> m] : m \in {10, 15, 20}}

SubmissionCalls ==
    {[kind |-> "submission", prompt |-> p, llmResp |-> o, roundNum |-> n,
      constraintsObj |-> c] :
        p \in Prompts \cup {PromptReverse}, o \in EvalOutputs, n \in 1..4,
        c \in {<<>>} \cup ConstraintInputs}

EvalInit ==
    /\ teamScore = [t \in Teams |-> 0]
    /\ submissions = <<>>
    /\ req = [r \in Requests |-> IdleFrame]
    /\ evalIn \in CriteriaCalls \cup SubmissionCalls
    /\ evalOut = None
    /\ history = <<>>
    /\ levels = <<>>

CallCriteriaEvaluator ==
    /\ evalIn.kind = "criteria"
    /\ evalOut = None
    /\ evalOut' = Some(evaluateOutputAgainstCriteria(evalIn.output, evalIn.criteria,
                                                     evalIn.roundMultiplier))
    /\ UNCHANGED <<teamScore, submissions, req, evalIn, history, levels>>

CallScoreSubmission ==
    /\ evalIn.kind = "submission"
    /\ evalOut = None
    /\ evalOut' = Some(scoreSubmission(evalIn.prompt, evalIn.llmResp, evalIn.roundNum,
                                       evalIn.constraintsObj))
    /\ UNCHANGED <<teamScore, submissions, req, evalIn, history, levels>>

EvalNext == CallCriteriaEvaluator \/ CallScoreSubmission

EvalSpec == EvalInit /\ [][EvalNext]_vars


-----------------------------------------------------------------------------
(* Direct calls of the prompt-quality heuristic on drawn inputs *)

PromptPhrases ==
    { <<>>,
      PromptTerse,
      PromptRich,
      PromptReverse,
      <<"C", "r", "e", "a", "t", "e", " ", "a", " ", "d", "e", "t", "a", "i", "l", "e", "d", " ", "p", "r", "o", "d", "u", "c", "t", " ", "d", "e", "s", "c", "r", "i", "p", "t", "i", "o", "n", " ", "f", "o", "r", " ", "c", "u", "s", "t", "o", "m", "e", "r", "s", " ", "o", "f", " ", "a", " ", "u", "n", "i", "q", "u", "e", " ", "b", "r", "a", "n", "d">>,
      <<"d", "e", "v", "e", "l", "o", "p", " ", "a", " ", "c", "o", "m", "p", "r", "e", "h", "e", "n", "s", "i", "v", "e", " ", "b", "u", "s", "i", "n", "e", "s", "s", " ", "s", "t", "r", "a", "t", "e", "g", "y", " ", "w", "i", "t", "h", " ", "s", "c", "a", "l", "a", "b", "l", "e", " ", "f", "u", "n", "d", "i", "n", "g">> }

PromptInputs == {Pad(n) \o phrase : n \in PadCounts, phrase \in PromptPhrases}

\* round numbers, also outside 1..3
PromptRounds == -1..4

PromptCalls ==
    {[kind |-> "prompt", prompt |-> p, roundNum |-> n] :
        p \in PromptInputs, n \in PromptRounds}

PromptInit ==
    /\ teamScore = [t \in Teams |-> 0]
    /\ submissions = <<>>
    /\ req = [r \in Requests |-> IdleFrame]
    /\ evalIn \in PromptCalls
    /\ evalOut = None
    /\ history = <<>>
    /\ levels = <<>>

\* the returned score is in points
CallPromptQuality ==
    /\ evalIn.kind = "prompt"
    /\ evalOut = None
    /\ evalOut' = Some([score |-> evaluatePromptQuality(evalIn.prompt, evalIn.roundNum)])
    /\ UNCHANGED <<teamScore, submissions, req, evalIn, history, levels>>

PromptSpec == PromptInit /\ [][CallPromptQuality]_vars

-----------------------------------------------------------------------------
(* Two calls of the criteria evaluator, with a manual submission stored in *)
(* between: evalOut collects the two results in call order.                *)

PairOutputs ==
    { <<>>,
      Pad(MaxPad \div 2) \o <<"g", "r", "e", "a", "t", " ", "v", "a", "l", "u", "e", " ", "f", "o", "r", " ", "$", "9", "9">>,
      <<"b", "a", "d", " ", "c", "a", "m", "e", "r", "a", " ", "a", "n", "d", " ", "p", "o", "o", "r", " ", "b", "a", "t", "t", "e", "r", "y", " ", "5", "0", "0", "0", "m", "A", "h", " ", "9", "9", " ", "₹">>,
      Pad(MaxPad) \o <<"a", "n", " ", "A", "m", "a", "z", "i", "n", "g", " ", "g", "a", "m", "e", "-", "c", "h", "a", "n", "g", "i", "n", "g", " ", "p", "h", "o", "n", "e">> }

PairCriteria ==
    {c \in
        {a @@ b @@ c @@ d @@ e @@ f :
            a \in {<<>>, [wordCount |-> 12]},
            b \in {<<>>, [maxWords |-> 5]},
            c \in {<<>>, [containsPrice |-> TRUE], [containsPrice |-> FALSE]},
            d \in {<<>>, [requiredElements |-> <<<<"₹">>>>],
                   [requiredElements |-> <<<<"₹">>, <<"b", "a", "t", "t", "e", "r", "y">>>>]},
            e \in {<<>>, [forbiddenWords |-> <<<<"a", "m", "a", "z", "i", "n", "g">>>>],
                   [forbiddenWords |-> <<<<"a", "m", "a", "z", "i", "n", "g">>, <<"g", "r", "e", "a", "t">>>>]},
            f \in {<<>>, [sentiment |-> "positive"]}} :
        Cardinality(DOMAIN c) <= 2}

\* d is c with one more criterion field, or with one more required element
\* or forbidden word
IsExtension(c, d) ==
    \/ /\ Cardinality(DOMAIN d) = Cardinality(DOMAIN c) + 1
       /\ DOMAIN c \subseteq DOMAIN d
       /\ \A k \in DOMAIN c : d[k] = c[k]
    \/ /\ DOMAIN d = DOMAIN c
       /\ \E k \in DOMAIN c \cap {"requiredElements", "forbiddenWords"} :
            /\ Len(d[k]) = Len(c[k]) + 1
            /\ SubSeq(d[k], 1, Len(c[k])) = c[k]
            /\ \A j \in DOMAIN c \ {k} : d[j] = c[j]

PairCalls ==
    {[kind |-> "pair",
      first |-> [output |-> o, criteria |-> q[1], roundMultiplier |-> q[3]],
      second |-> [output |-> o, criteria |-> q[2], roundMultiplier |-> q[4]]] :
        o \in PairOutputs,
        q \in {q \in PairCriteria \X PairCriteria \X {10, 15, 20} \X {10, 15, 20} :
                 \/ q[1] = q[2] /\ q[3] \in {10, q[4]}
                 \/ IsExtension(q[1], q[2]) /\ q[3] = q[4]}}

PairInit ==
    /\ teamScore = [t \in Teams |-> 0]
    /\ submissions = <<>>
    /\ req = [r \in Requests |-> IdleFrame]
    /\ evalIn \in PairCalls
    /\ evalOut = <<>>
    /\ history = <<>>
    /\ levels = <<>>

CallFirst ==
    /\ evalIn.kind = "pair"
    /\ Len(evalOut) = 0
    /\ evalOut' = <<evaluateOutputAgainstCriteria(evalIn.first.output, evalIn.first.criteria,
                                                  evalIn.first.roundMultiplier)>>
    /\ UNCHANGED <<teamScore, submissions, req, evalIn, history, levels>>

\* POST /api/submissions between the two calls
InterveningSubmission ==
    /\ evalIn.kind = "pair"
    /\ Len(evalOut) = 1
    /\ submissions = <<>>
    /\ \E body \in ManualBodies :
        /\ Has(body, "teamId") /\ findUnique(body.teamId) # None
        /\ Has(body, "prompt") /\ body.prompt # <<>>
        /\ Has(body, "round") /\ body.round = 1
        /\ Has(body, "score") /\ body.score = 7500
        /\ submissions' = Append(submissions,
                [teamId |-> body.teamId, round |-> StoredRound(body), score |-> body.score])
    /\ UNCHANGED <<teamScore, req, evalIn, evalOut, history, levels>>

CallSecond ==
    /\ evalIn.kind = "pair"
    /\ Len(evalOut) = 1
    /\ evalOut' = Append(evalOut,
            evaluateOutputAgainstCriteria(evalIn.second.output, evalIn.second.criteria,
                                          evalIn.second.roundMultiplier))
    /\ UNCHANGED <<teamScore, submissions, req, evalIn, history, levels>>

PairNext == CallFirst \/ InterveningSubmission \/ CallSecond

PairSpec == PairInit /\ [][PairNext]_vars

-----------------------------------------------------------------------------
(* Direct calls of the reverse-engineering evaluator *)

\* one word, or none, for each kind of marker; "task" holds "ask" and
\* "detailed" holds "detail"
ReverseWords ==
    << {<<>>, <<"p", "r", "o", "m", "p", "t", " ">>, <<"C", "r", "e", "a", "t", "e", " ">>, <<"t", "a", "s", "k", " ">>},
       {<<>>, <<"b", "e", "c", "a", "u", "s", "e", " ">>, <<"L", "I", "K", "E", "L", "Y", " ">>},
       {<<>>, <<"s", "t", "y", "l", "e", " ">>, <<"d", "e", "t", "a", "i", "l", "e", "d", " ">>},
       {<<>>, <<"r", "e", "c", "i", "p", "e">>, <<"B", "a", "k", "i", "n", "g">>} >>

ReverseResponses ==
    {a \o b \o c \o d : a \in ReverseWords[1], b \in ReverseWords[2],
                        c \in ReverseWords[3], d \in ReverseWords[4]}

ReverseCalls == {[kind |-> "reverse", userResponse |-> x] : x \in ReverseResponses}

ReverseInit ==
    /\ teamScore = [t \in Teams |-> 0]
    /\ submissions = <<>>
    /\ req = [r \in Requests |-> IdleFrame]
    /\ evalIn \in ReverseCalls
    /\ evalOut = None
    /\ history = <<>>
    /\ levels = <<>>

CallReverseEngineering ==
    /\ evalIn.kind = "reverse"
    /\ evalOut = None
    /\ evalOut' = Some(evaluateReverseEngineering(evalIn.userResponse))
    /\ UNCHANGED <<teamScore, submissions, req, evalIn, history, levels>>

ReverseSpec == ReverseInit /\ [][CallReverseEngineering]_vars

-----------------------------------------------------------------------------
(* The criteria merge of the score endpoint on drawn catalog entries and bodies *)

CallerCriteria ==
    {a @@ b @@ c @@ d @@ e :
        a \in {<<>>, [maxWords |-> 10], [maxWords |-> 0]},
        b \in {<<>>, [forbiddenWords |-> <<<<"p", "h", "o", "n", "e">>>>], [forbiddenWords |-> <<>>]},
        c \in {<<>>, [requiredElements |-> <<<<"p", "r", "i", "c", "e">>>>]},
        d \in {<<>>, [wordCount |-> 12]},
        e \in {<<>>, [sentiment |-> "positive"]}}

MergeBodies ==
    {<<>>} \cup {[criteria |-> c] : c \in CallerCriteria}
           \cup {[expectedCriteria |-> c] : c \in CallerCriteria}

MergeCalls ==
    {[kind |-> "merge", round |-> n, challengeId |-> 1, body |-> b] :
        n \in 1..Len(SEED_ROUNDS), b \in MergeBodies}

MergeInit ==
    /\ teamScore = [t \in Teams |-> 0]
    /\ submissions = <<>>
    /\ req = [r \in Requests |-> IdleFrame]
    /\ evalIn \in MergeCalls
    /\ evalOut = None
    /\ history = <<>>
    /\ levels = <<>>

\* const merged = { ...catalog fields, ...caller fields }
CallMerge ==
    /\ evalIn.kind = "merge"
    /\ evalOut = None
    /\ evalOut' = Some(MergedCriteria(SEED_ROUNDS[evalIn.round].challenges[evalIn.challengeId],
                                      BaseCriteria(evalIn.body)))
    /\ UNCHANGED <<teamScore, submissions, req, evalIn, history, levels>>

MergeSpec == MergeInit /\ [][CallMerge]_vars
-----------------------------------------------------------------------------
(* Pass gating *)

\* C1: when requests are served one at a time, every submit-prompt request that
\* is answered with a score leaves the team's total as it was before the
\* operation when the final score is below 60, and to that total plus exactly
\* the final score when it is 60 or more; the failure response names the
\* threshold of 60 points.
C1_PassGating ==
    [][\A r \in Requests :
        (req[r].pc \notin {"idle", "done"} /\ req'[r].pc = "done"
            /\ req[r].handler = "submit-prompt" /\ req'[r].status = 200) =>
            LET response == req'[r].response
                before == teamScore[req[r].body.teamId]
                after == teamScore'[req[r].body.teamId]
            IN  /\ response.score = req[r].evalResult.score
                /\ IF response.score < 6000
                   THEN /\ ~response.passed
                        /\ after = before
                        /\ response.threshold = 60
                        /\ response.message.points = 60
                   ELSE /\ response.passed
                        /\ after = before + response.score]_vars

\* a failed attempt and then a passed one have been answered: the total is the
\* passed attempt's score alone
C1_Witness ==
    \E r1, r2 \in Requests :
        /\ req[r1].pc = "done" /\ req[r1].handler = "submit-prompt" /\ req[r1].status = 200
        /\ req[r2].pc = "done" /\ req[r2].handler = "submit-prompt" /\ req[r2].status = 200
        /\ ~req[r1].response.passed /\ req[r1].response.score > 0
        /\ req[r2].response.passed
        /\ Len(submissions) = 2
        /\ teamScore["t1"] = req[r2].response.score

\* C2: every scoring operation that persists an attempt for a team records the
\* attempt whether it passes or fails, and changes the team's total only when
\* the attempt's final score is 60 or more.
C2_TotalOnlyWhenPassed ==
    [][\A r \in Requests :
        LET score == IF req[r].handler = "score" THEN req[r].result.score
                     ELSE req[r].evalResult.score
        IN  /\ (req[r].pc = "creating" /\ req'[r].pc \in {"updating", "done"}
                    /\ (req'[r].pc = "done" => req'[r].status = 200))
                => submissions' = Append(submissions,
                       [teamId |-> req[r].body.teamId,
                        round |-> submissions'[Len(submissions')].round,
                        score |-> score])
            /\ (req[r].pc = "updating" /\ req'[r].pc = "done" /\ score < 6000)
                => teamScore' = teamScore]_vars

-----------------------------------------------------------------------------
(* Progress snapshot *)

\* C3: in every progress snapshot round 1 is unlocked, and round r+1 (r = 1, 2)
\* is unlocked exactly when the history holds an attempt of round r with a
\* score of 60 or more, whatever the attempts of the other rounds are.
C3_UnlockRule ==
    levels # <<>> =>
        /\ levels[1].unlocked
        /\ \A r \in {1, 2} :
            levels[r + 1].unlocked <=>
                \E i \in 1..Len(history) :
                    history[i].round = Some(r) /\ history[i].score >= 6000

\* history [{round 1, score 75}]: round 2 is unlocked, round 3 is not
C3_Witness ==
    /\ levels # <<>>
    /\ history = <<[teamId |-> "t1", round |-> Some(1), score |-> 7500]>>
    /\ levels[1].unlocked /\ levels[2].unlocked /\ ~levels[3].unlocked

\* C5: in every progress snapshot round 2 is accessible exactly when round 2 is
\* unlocked and round 3 is not, it is locked exactly when round 3 is unlocked,
\* and it is never accessible and locked at once.
C5_Round2AccessibleXorLocked ==
    levels # <<>> =>
        /\ levels[2].accessible <=> (levels[2].unlocked /\ ~levels[3].unlocked)
        /\ levels[2].locked <=> levels[3].unlocked
        /\ ~(levels[2].accessible /\ levels[2].locked)

C7_NullBestIffNoAttempts ==
    levels # <<>> =>
        \A r \in 1..3 :
            /\ levels[r].bestScore = None <=> levels[r].attempts = 0
            /\ levels[r].attempts =
                   Cardinality({i \in 1..Len(history) : history[i].round = Some(r)})

C9_Round3AccessibleNeverLocked ==
    levels # <<>> =>
        /\ levels[3].accessible <=> levels[3].unlocked
        /\ levels[3].accessible <=>
               \E i \in 1..Len(history) :
                   history[i].round = Some(2) /\ history[i].score >= 6000
        /\ ~levels[3].locked

\* round 2 was passed and round 1 was not: round 3 is accessible and not locked
C9_Witness ==
    /\ levels # <<>>
    /\ \E i \in 1..Len(history) : history[i].round = Some(2) /\ history[i].score >= 6000
    /\ \A i \in 1..Len(history) : history[i].round = Some(1) => history[i].score < 6000
    /\ levels[3].accessible /\ levels[3].unlocked /\ ~levels[3].locked

-----------------------------------------------------------------------------
(* Score ranges *)

\* C4 as stated: on every scoring path, round 2 included, the final score is
\* within [0, 100 x multiplier].
C4_FinalScoreWithinHundredTimesMultiplier ==
    evalOut # None =>
        LET multiplier == IF evalIn.kind = "criteria" THEN evalIn.roundMultiplier
                          ELSE Multiplier(evalIn.roundNum)
        IN  evalOut[1].score >= 0 /\ evalOut[1].score <= 1000 * multiplier

\* C4: the final score is within [0, 100 x multiplier] on the criteria path and
\* on the combined prompt-and-output path; on the round-2 reverse-engineering
\* path it is within [0, 110 x 1.5], the sub-score being within [0, 110].
C4_FinalScoreRange ==
    evalOut # None =>
        LET score == evalOut[1].score
        IN  IF evalIn.kind = "criteria"
            THEN score >= 0 /\ score <= 1000 * evalIn.roundMultiplier
            ELSE IF evalIn.roundNum = 2
            THEN /\ evaluateReverseEngineering(evalIn.prompt).score \in 0..11000
                 /\ score >= 0 /\ score <= 1100 * Multiplier(2)
            ELSE score >= 0 /\ score <= 1000 * Multiplier(evalIn.roundNum)

\* a round-2 submission whose final score is above 100 x 1.5
C4_Witness ==
    /\ evalOut # None
    /\ evalIn.kind = "submission"
    /\ evalIn.roundNum = 2
    /\ evalOut[1].score > 1000 * Multiplier(2)

\* C10: the criteria evaluator's score before the round multiplier is within
\* [0, 70], and the score it returns is that score times the multiplier,
\* rounded to two decimals.
C10_CriteriaScoreRange ==
    (evalIn.kind = "criteria" /\ evalOut # None) =>
        LET score == ClampedScore(evalIn.output, evalIn.criteria)
        IN  /\ score >= 0
            /\ score <= 7000
            /\ evalOut[1].score = RoundDiv(score * evalIn.roundMultiplier, 10)
            /\ evalOut[1].score >= 0
            /\ evalOut[1].score <= 700 * evalIn.roundMultiplier

\* the penalties exceed the base of 70: the returned score is 0
C10_Witness ==
    /\ evalIn.kind = "criteria"
    /\ evalOut # None
    /\ RunningScore(evalIn.output, evalIn.criteria) < 0
    /\ evalOut[1].score = 0

-----------------------------------------------------------------------------
(* Prompt-quality heuristic *)

\* C11: for every prompt and every round number, also outside 1..3,
\* evaluatePromptQuality returns a score within [20, 100].
C11_PromptQualityRange ==
    (evalIn.kind = "prompt" /\ evalOut # None) =>
        evalOut[1].score >= 20 /\ evalOut[1].score <= 100

\* the bonuses add up to more than 100 and the returned score is 100
C11_Witness ==
    /\ evalIn.kind = "prompt"
    /\ evalOut # None
    /\ PromptRawScore(evalIn.prompt, evalIn.roundNum) > 100
    /\ evalOut[1].score = 100

-----------------------------------------------------------------------------
(* Relations between two calls of the criteria evaluator *)

\* C12: for the same output and multiplier, when the second call's criteria
\* are the first call's with one more criterion field enabled, or with one
\* more required element or forbidden word, the second score is at most the
\* first score.
C12_MoreCriteriaNeverRaiseScore ==
    (evalIn.kind = "pair" /\ Len(evalOut) = 2
        /\ evalIn.first.output = evalIn.second.output
        /\ evalIn.first.roundMultiplier = evalIn.second.roundMultiplier
        /\ IsExtension(evalIn.first.criteria, evalIn.second.criteria))
    => evalOut[2].score <= evalOut[1].score

\* the added criterion fails and the score drops, without reaching the floor
C12_Witness ==
    /\ evalIn.kind = "pair" /\ Len(evalOut) = 2
    /\ IsExtension(evalIn.first.criteria, evalIn.second.criteria)
    /\ evalOut[2].score < evalOut[1].score
    /\ evalOut[2].score > 0

\* C13: for the same output and criteria, the score with multiplier m in
\* {1.0, 1.5, 2.0} is the score with multiplier 1.0 times m, rounded to two
\* decimals, and the violation list is the same.
C13_MultiplierScales ==
    (evalIn.kind = "pair" /\ Len(evalOut) = 2
        /\ evalIn.first.output = evalIn.second.output
        /\ evalIn.first.criteria = evalIn.second.criteria
        /\ evalIn.first.roundMultiplier = 10)
    => /\ evalOut[2].score = RoundDiv(evalOut[1].score * evalIn.second.roundMultiplier, 10)
       /\ evalOut[2].violations = evalOut[1].violations

\* a clean output of 20 words or more: 70 with multiplier 1.0, 140 with 2.0
C13_Witness ==
    /\ evalIn.kind = "pair" /\ Len(evalOut) = 2
    /\ evalIn.first.criteria = evalIn.second.criteria
    /\ evalIn.first.roundMultiplier = 10
    /\ evalIn.second.roundMultiplier = 20
    /\ evalOut[1].score = 7000
    /\ evalOut[2].score = 14000

-----------------------------------------------------------------------------
(* submit-prompt: round 2, generation failure, validation *)

\* C15: for every round-2 submission through submit-prompt, whatever text was
\* generated, the final score is the reverse-engineering score of the prompt
\* times 1.5 rounded to two decimals, the violations are those of the prompt,
\* and the attempt passes exactly when that score is 60 or more.
C15_Round2DependsOnPromptOnly ==
    \A r \in Requests :
        (req[r].pc \in {"creating", "updating"} /\ req[r].handler = "submit-prompt"
            /\ req[r].roundNum = 2)
        => LET e == ReverseResults[req[r].body.prompt]
               final == RoundDiv(e.score * 15, 10)
           IN  /\ req[r].evalResult.score = final
               /\ req[r].evalResult.violations = e.violations
               /\ req[r].passed <=> final >= 6000

\* a round-2 attempt was answered for a generated text of 21 words, and a second
\* one, whose generated text is empty, has the same score
C15_Witness ==
    \E r1, r2 \in Requests :
        /\ req[r1].pc = "done" /\ req[r1].handler = "submit-prompt" /\ req[r1].status = 200
        /\ req[r1].response.passed /\ req[r1].response.message.round = 2
        /\ req[r1].response.response = OutputFull
        /\ req[r2].pc = "creating" /\ req[r2].handler = "submit-prompt"
        /\ req[r2].roundNum = 2
        /\ req[r2].llmResp = OutputEmpty
        /\ req[r2].evalResult.score = req[r1].response.score

\* C16: a submit-prompt request writes no submission and no total before the
\* generation call has returned a text; when the generation call fails the
\* request is answered with an error and without a score, nothing is written,
\* and the answered request writes nothing afterwards.
C16_NoWriteBeforeGeneration ==
    [][\A r \in Requests :
        /\ (req[r].pc \in {"idle", "generating"} /\ req'[r] # req[r]
                /\ req'[r].handler = "submit-prompt")
            => submissions' = submissions /\ teamScore' = teamScore
        /\ (req'[r] # req[r] /\ req'[r].handler = "submit-prompt"
                /\ (submissions' # submissions \/ teamScore' # teamScore))
            => (req[r].pc \in {"creating", "updating"} /\ Has(req[r], "llmResp"))
        /\ (req[r].pc = "generating" /\ req'[r].pc = "done")
            => /\ req'[r].status = 500
               /\ ~req'[r].response.success
               /\ ~Has(req'[r].response, "score")
        /\ req[r].pc = "done" => req'[r] = req[r]]_vars

\* a request was answered with an error while nothing is stored, and the next
\* request is waiting for its generated text
C16_Witness ==
    \E r1, r2 \in Requests :
        /\ req[r1].pc = "done" /\ req[r1].handler = "submit-prompt" /\ req[r1].status = 500
        /\ req[r2].pc = "generating"
        /\ submissions = <<>>
        /\ teamScore["t1"] = 0

\* C17: a request without its required input (teamId and prompt for
\* submit-prompt, llmOutput for the score endpoint) is answered 400 on arrival,
\* without a score and with nothing written; every request that goes on to be
\* evaluated carries its required input, and a score answered on arrival is
\* the evaluation of an output that was supplied.
C17_MissingInputRejected ==
    [][\A r \in Requests :
        /\ (req'[r] # req[r] /\ req'[r].pc = "done" /\ req'[r].status = 400)
            => /\ req[r].pc = "idle"
               /\ ~req'[r].response.success
               /\ ~Has(req'[r].response, "score")
               /\ submissions' = submissions
               /\ teamScore' = teamScore
        /\ req'[r].pc \notin {"idle", "done"}
            => IF req'[r].handler = "submit-prompt"
               THEN /\ Has(req'[r].body, "teamId")
                    /\ Has(req'[r].body, "prompt") /\ req'[r].body.prompt # <<>>
               ELSE Has(req'[r].body, "llmOutput") /\ req'[r].body.llmOutput # <<>>
        /\ (req[r].pc = "idle" /\ req'[r].pc = "done" /\ req'[r].handler = "score"
                /\ req'[r].status = 200)
            => \E o \in {OutputShort, OutputFull}, c \in {<<>>} \cup CriteriaOverrides :
                    LET result == ScoreResults[req'[r].response.round, o, c]
                    IN  /\ req'[r].response.score = result.score
                        /\ req'[r].response.violations = result.violations]_vars

\* one request was rejected as invalid and nothing is stored, while the next
\* one, which carries its input, has been evaluated
C17_Witness ==
    \E r1, r2 \in Requests :
        /\ req[r1].pc = "done" /\ req[r1].status = 400
        /\ req[r1].response.detail \in {"teamId and prompt required", "llmOutput is required"}
        /\ req[r2].pc = "creating"
        /\ submissions = <<>>
        /\ teamScore["t1"] = 0

-----------------------------------------------------------------------------
(* Criteria evaluator: scenarios and the sum of penalties *)

\* C18 as stated: scenario A with multiplier 1.0 yields the violations
\* forbidden_words:amazing and missing_elements:₹, neither too_short nor
\* very_brief, and a final score of 43.
C18_ScenarioAScores43 ==
    (evalIn.kind = "criteria" /\ evalIn.output = ScenarioAOutput
        /\ evalIn.criteria = ScenarioACriteria /\ evalIn.roundMultiplier = 10
        /\ evalOut # None)
    => LET v == evalOut[1].violations
       IN  /\ \E i \in 1..Len(v) : v[i] = <<"forbidden_words", <<<<"a", "m", "a", "z", "i", "n", "g">>>>>>
           /\ \E i \in 1..Len(v) : v[i] = <<"missing_elements", <<<<"₹">>>>>>
           /\ \A i \in 1..Len(v) : v[i][1] \notin {"too_short", "very_brief"}
           /\ evalOut[1].score = 4300

\* C18: scenario A with multiplier 1.0 yields exactly the violations
\* very_brief (the output has 14 words), missing_elements:₹ and
\* forbidden_words:amazing, in that order, and a final score of
\* 28 = 70 - 15 - 12 - 15.
C18_ScenarioAScores28 ==
    (evalIn.kind = "criteria" /\ evalIn.output = ScenarioAOutput
        /\ evalIn.criteria = ScenarioACriteria /\ evalIn.roundMultiplier = 10
        /\ evalOut # None)
    => /\ countWords(evalIn.output) = 14
       /\ evalOut[1].violations =
              << <<"very_brief">>,
                 <<"missing_elements", <<<<"₹">>>>>>,
                 <<"forbidden_words", <<<<"a", "m", "a", "z", "i", "n", "g">>>>>> >>
       /\ evalOut[1].score = 2800

\* scenario A has been evaluated with multiplier 1.0
C18_Witness ==
    /\ evalIn.kind = "criteria"
    /\ evalIn.output = ScenarioAOutput
    /\ evalIn.criteria = ScenarioACriteria
    /\ evalIn.roundMultiplier = 10
    /\ evalOut # None
    /\ evalOut[1].score = 2800

\* C19: for the empty output the word count is 0 and the first violation is
\* too_short; the score before the multiplier is 40 when no other check
\* fails, and otherwise 40 less 12 for every required element, less the
\* penalties of the other failing checks (exact word count, required price,
\* sentiment), floored at 0.
C19_EmptyOutput ==
    (evalIn.kind = "criteria" /\ evalIn.output = <<>> /\ evalOut # None)
    => LET c == evalIn.criteria
           wordCount == IF Has(c, "wordCount") /\ c.wordCount # 0
                        THEN Min(2500, 150 * Abs(c.wordCount)) ELSE 0
           maxWords == IF Has(c, "maxWords") /\ c.maxWords < 0
                       THEN Min(2500, 120 * (0 - c.maxWords)) ELSE 0
           price == IF Has(c, "containsPrice") /\ c.containsPrice THEN 1500 ELSE 0
           required == IF Has(c, "requiredElements")
                       THEN 1200 * Cardinality({i \in 1..Len(c.requiredElements) :
                                                   c.requiredElements[i] # <<>>})
                       ELSE 0
           sentiment == IF Has(c, "sentiment") /\ c.sentiment # "neutral" THEN 800 ELSE 0
           others == wordCount + maxWords + price + required + sentiment
       IN  /\ countWords(evalIn.output) = 0
           /\ evalOut[1].violations[1] = <<"too_short">>
           /\ evalOut[1].score =
                  RoundDiv(Max(0, 4000 - others) * evalIn.roundMultiplier, 10)
           /\ (others = 0 /\ evalIn.roundMultiplier = 10) => evalOut[1].score = 4000

\* the empty output with two required elements and nothing else: 40 - 24 = 16
C19_Witness ==
    /\ evalIn.kind = "criteria"
    /\ evalIn.output = <<>>
    /\ DOMAIN evalIn.criteria = {"requiredElements"}
    /\ Len(evalIn.criteria.requiredElements) = 2
    /\ evalIn.roundMultiplier = 10
    /\ evalOut # None
    /\ evalOut[1].score = 1600

\* C20: for every output and criteria the score before the multiplier is
\* max(0, 70 - the sum of the penalties of all failing checks), with 30 under
\* 10 words or 15 for 10 to 19 words, min(25, 1.5 x |actual - expected|),
\* min(25, 1.2 x (actual - max)), 15 for a missing and 5 for an unexpected
\* price, 12 per missing required element, 15 per matched forbidden word and
\* 8 for a sentiment mismatch; the violation list holds one code per failing
\* check, in that order.
C20_PenaltiesAddUp ==
    (evalIn.kind = "criteria" /\ evalOut # None)
    => LET c == evalIn.criteria
           text == toLowerCase(evalIn.output)
           wc == countWords(evalIn.output)
           hasPrice == detectPrice(evalIn.output)
           missing == IF Has(c, "requiredElements")
                      THEN Cardinality({i \in 1..Len(c.requiredElements) :
                               ~includes(text, toLowerCase(c.requiredElements[i]))})
                      ELSE 0
           found == IF Has(c, "forbiddenWords")
                    THEN Cardinality({i \in 1..Len(c.forbiddenWords) :
                             TestWholeWord(text, toLowerCase(c.forbiddenWords[i]))})
                    ELSE 0
           wrongCount == Has(c, "wordCount") /\ wc # c.wordCount
           tooMany == Has(c, "maxWords") /\ wc > c.maxWords
           noPrice == Has(c, "containsPrice") /\ c.containsPrice /\ ~hasPrice
           oddPrice == Has(c, "containsPrice") /\ ~c.containsPrice /\ hasPrice
           mood == Has(c, "sentiment") /\ c.sentiment # simpleSentiment(evalIn.output)
           sum == (IF wc < 10 THEN 3000 ELSE IF wc < 20 THEN 1500 ELSE 0)
                  + (IF wrongCount THEN Min(2500, 150 * Abs(wc - c.wordCount)) ELSE 0)
                  + (IF tooMany THEN Min(2500, 120 * (wc - c.maxWords)) ELSE 0)
                  + (IF noPrice THEN 1500 ELSE 0)
                  + (IF oddPrice THEN 500 ELSE 0)
                  + 1200 * missing
                  + 1500 * found
                  + (IF mood THEN 800 ELSE 0)
           codes == (IF wc < 10 THEN <<"too_short">>
                     ELSE IF wc < 20 THEN <<"very_brief">> ELSE <<>>)
                    \o (IF wrongCount THEN <<"wordCount">> ELSE <<>>)
                    \o (IF tooMany THEN <<"exceeded_maxWords">> ELSE <<>>)
                    \o (IF noPrice THEN <<"missing_price">> ELSE <<>>)
                    \o (IF oddPrice THEN <<"unexpected_price">> ELSE <<>>)
                    \o (IF missing > 0 THEN <<"missing_elements">> ELSE <<>>)
                    \o (IF found > 0 THEN <<"forbidden_words">> ELSE <<>>)
                    \o (IF mood THEN <<"sentiment_mismatch">> ELSE <<>>)
           v == evalOut[1].violations
       IN  /\ evalOut[1].score = RoundDiv(Max(0, 7000 - sum) * evalIn.roundMultiplier, 10)
           /\ Len(v) = Len(codes)
           /\ \A i \in 1..Len(v) : v[i][1] = codes[i]

\* five checks fail on one output and the score is still above the floor
C20_Witness ==
    /\ evalIn.kind = "criteria"
    /\ evalOut # None
    /\ Len(evalOut[1].violations) >= 5
    /\ evalOut[1].score > 0

-----------------------------------------------------------------------------
(* Scoring policy of POST /api/submit-prompt *)

\* C21: for a submit-prompt submission of any round other than 2 the final
\* score is (0.6 x outputScore + 0.4 x promptScore) x multiplier, rounded to
\* two decimals, where outputScore is the criteria evaluator's score with
\* multiplier 1.0 and promptScore the prompt-quality score; the multiplier
\* (1.0, or 2.0 in round 3) enters once, so the final score is exactly the
\* combined score times the multiplier.
C21_CombinedScoreTimesMultiplier ==
    (evalIn.kind = "submission" /\ evalIn.roundNum # 2 /\ evalOut # None)
    => LET outputScore ==
               evaluateOutputAgainstCriteria(evalIn.llmResp,
                   SubmitCriteria(evalIn.constraintsObj), 10).score
           promptScore == 100 * evaluatePromptQuality(evalIn.prompt, evalIn.roundNum)
           tenths == IF evalIn.roundNum = 3 THEN 20 ELSE 10
       IN  /\ evalOut[1].score =
                  RoundDiv((6 * outputScore + 4 * promptScore) * tenths, 100)
           /\ 100 * evalOut[1].score = (6 * outputScore + 4 * promptScore) * tenths

\* a round-3 submission whose doubled score is above 100
C21_Witness ==
    /\ evalIn.kind = "submission"
    /\ evalIn.roundNum = 3
    /\ evalOut # None
    /\ evalOut[1].score > Pts(100)

\* C22: the round multiplier is 1.0 for round 1, 1.5 for round 2, 2.0 for
\* round 3 and 1.0 for any other round; submit-prompt rejects a request only
\* for a missing team id or prompt or an unknown team, never for its round,
\* and scores a round other than 1, 2, 3 through the output-criteria plus
\* prompt-quality branch with multiplier 1.0; the score endpoint applies the
\* same multipliers to its catalog rounds.
C22_MultiplierByRound ==
    \A r \in Requests :
        LET f == req[r]
            tenths(n) == CASE n = 1 -> 10 [] n = 2 -> 15 [] n = 3 -> 20 [] OTHER -> 10
        IN  /\ (f.pc = "done" /\ f.handler = "submit-prompt" /\ f.status \in {400, 404})
               => f.response.detail \in {"teamId and prompt required", "Team not found"}
            /\ (f.pc = "creating" /\ f.handler = "submit-prompt")
               => /\ f.roundNum = (IF Has(f.body, "round") /\ f.body.round # 0
                                   THEN f.body.round ELSE 1)
                  /\ IF f.roundNum = 2
                     THEN f.evalResult.score =
                              RoundDiv(ReverseResults[f.body.prompt].score * tenths(2), 10)
                     ELSE f.evalResult.score =
                              RoundDiv((6 * OutputResults[f.llmResp, ConstraintsOf(f.body)].score
                                        + 400 * PromptScores[f.body.prompt, f.roundNum])
                                           * tenths(f.roundNum), 100)
            /\ (f.pc = "creating" /\ f.handler = "score")
               => f.result.score =
                      RoundDiv(CatalogResults[f.roundNum, f.body.llmOutput,
                                              BaseCriteria(f.body)].score
                                   * tenths(f.roundNum), 10)

\* a submit-prompt request for round 4 has been scored and has passed
C22_Witness ==
    \E r \in Requests :
        /\ req[r].pc = "done"
        /\ req[r].handler = "submit-prompt"
        /\ req[r].status = 200
        /\ req[r].response.passed
        /\ req[r].response.message.round = 4

-----------------------------------------------------------------------------
(* Reverse-engineering evaluator *)

\* C23: the reverse-engineering score is max(0, 100 - 30 without a
\* reconstruction marker - 25 without a reasoning marker + 10 with an analysis
\* marker - 15 without a context marker); there is no ceiling, a response with
\* all four kinds of marker scores 110; the violation list holds exactly the
\* codes of the missing kinds, in the order reconstruction, reasoning, context,
\* and the analysis bonus adds none.
C23_ReverseScore ==
    (evalIn.kind = "reverse" /\ evalOut # None)
    => LET text == toLowerCase(evalIn.userResponse)
           has(words) == \E w \in words : includes(text, w)
           reconstruction == has({<<"p", "r", "o", "m", "p", "t">>, <<"a", "s", "k">>, <<"w", "r", "i", "t", "e">>, <<"c", "r", "e", "a", "t", "e">>})
           reasoning == has({<<"b", "e", "c", "a", "u", "s", "e">>, <<"l", "i", "k", "e", "l", "y">>, <<"s", "u", "g", "g", "e", "s", "t", "s">>, <<"i", "n", "d", "i", "c", "a", "t", "e", "s">>, <<"r", "e", "a", "s", "o", "n", "i", "n", "g">>})
           analysis == has({<<"s", "t", "y", "l", "e">>, <<"f", "o", "r", "m", "a", "t">>, <<"s", "t", "r", "u", "c", "t", "u", "r", "e">>, <<"d", "e", "t", "a", "i", "l">>})
           context == has({<<"r", "e", "c", "i", "p", "e">>, <<"c", "o", "o", "k", "i", "n", "g">>, <<"b", "a", "k", "i", "n", "g">>, <<"i", "n", "g", "r", "e", "d", "i", "e", "n", "t", "s">>})
           sum == 10000 - (IF reconstruction THEN 0 ELSE 3000)
                        - (IF reasoning THEN 0 ELSE 2500)
                        + (IF analysis THEN 1000 ELSE 0)
                        - (IF context THEN 0 ELSE 1500)
       IN  /\ evalOut[1].score = Max(0, sum)
           /\ (reconstruction /\ reasoning /\ analysis /\ context) => evalOut[1].score = 11000
           /\ evalOut[1].violations =
                  (IF reconstruction THEN <<>> ELSE << <<"missing_prompt_reconstruction">> >>)
                  \o (IF reasoning THEN <<>> ELSE << <<"missing_reasoning">> >>)
                  \o (IF context THEN <<>> ELSE << <<"missing_context_understanding">> >>)

\* a response with all four kinds of marker has been scored 110, without violation
C23_Witness ==
    /\ evalIn.kind = "reverse"
    /\ evalOut # None
    /\ evalOut[1].score = 11000
    /\ evalOut[1].violations = <<>>

-----------------------------------------------------------------------------
(* Criteria merge of the score endpoint *)

\* C24: the criteria used by the score endpoint are merged field by field:
\* for each of maxWords, forbiddenWords and requiredElements the value supplied
\* by the caller is used when the caller supplies the field and the catalog's
\* value otherwise, so an override of one field never removes the catalog's
\* value of another; the caller's other fields are taken over as they are.
C24_MergeFieldByField ==
    (evalIn.kind = "merge" /\ evalOut # None)
    => LET merged == evalOut[1]
           body == evalIn.body
           caller == IF "criteria" \in DOMAIN body THEN body.criteria
                     ELSE IF "expectedCriteria" \in DOMAIN body THEN body.expectedCriteria
                     ELSE <<>>
           ch == SEED_ROUNDS[evalIn.round].challenges[evalIn.challengeId]
           catalog == IF "constraints" \in DOMAIN ch THEN ch.constraints ELSE <<>>
       IN  /\ \A f \in {"maxWords", "forbiddenWords", "requiredElements"} :
                  IF f \in DOMAIN caller THEN f \in DOMAIN merged /\ merged[f] = caller[f]
                  ELSE IF f \in DOMAIN catalog
                  THEN f \in DOMAIN merged /\ merged[f] = catalog[f]
                  ELSE f \notin DOMAIN merged
           /\ \A f \in {"wordCount", "containsPrice", "sentiment"} :
                  IF f \in DOMAIN caller THEN f \in DOMAIN merged /\ merged[f] = caller[f]
                  ELSE f \notin DOMAIN merged

\* the caller overrides maxWords alone on the catalog challenge of round 1: the
\* merged criteria keep the catalog's forbidden words and required elements
C24_Witness ==
    /\ evalIn.kind = "merge"
    /\ evalIn.round = 1
    /\ evalIn.body = [criteria |-> [maxWords |-> 10]]
    /\ evalOut # None
    /\ evalOut[1].maxWords = 10
    /\ Len(evalOut[1].forbiddenWords) = 5
    /\ Len(evalOut[1].requiredElements) = 4

-----------------------------------------------------------------------------
(* Order of the two writes of POST /api/submit-prompt *)

-----------------------------------------------------------------------------
(* Concurrent requests of one team *)

\* C26: whatever the interleaving of concurrent submit-prompt requests of one
\* team, once all of them are answered the team's total is its initial total
\* (0) plus the sum of the final scores of the requests reported as passed.
C26_NoLostIncrement ==
    (\A r \in Requests : req[r].pc = "done" /\ req[r].handler = "submit-prompt")
    => LET gained(r) == IF req[r].status = 200 /\ req[r].response.passed
                        THEN req[r].response.score ELSE 0
           RECURSIVE sum(_)
           sum(n) == IF n = 0 THEN 0 ELSE gained(n) + sum(n - 1)
       IN  teamScore["t1"] = 0 + sum(MaxReq)

-----------------------------------------------------------------------------
(* Scored attempts and the progress they produce *)

\* C27: every submit-prompt request reported as passed makes the round it was
\* scored as completed in the team's next progress snapshot, and with round 1
\* also round 2 unlocked; this includes the request that gives no round, or
\* round 0, and is scored as round 1.
C27_PassedRoundIsCompleted ==
    \A r \in Requests :
        (/\ req[r].pc = "done" /\ req[r].handler = "submit-prompt"
         /\ req[r].status = 200 /\ req[r].response.passed
         /\ req[r].response.message.round \in 1..3
         /\ levels # <<>>
         /\ history = findMany(submissions, "t1"))
        => LET scoredAs == req[r].response.message.round
           IN  /\ levels[scoredAs].completed
               /\ scoredAs = 1 => levels[2].unlocked

\* C28: progress is a forward funnel in every snapshot: round 3 unlocked
\* implies round 2 unlocked, and a completed round is an unlocked round,
\* because an attempt at a round above 1 is only accepted once that round is
\* unlocked for the team.
C28_ForwardFunnel ==
    levels # <<>>
    => /\ levels[3].unlocked => levels[2].unlocked
       /\ \A r \in 1..3 : levels[r].completed => levels[r].unlocked

\* C29: progress never regresses as submissions are appended: from one
\* snapshot of a team to the next, for every round, completed and unlocked
\* stay true once true, the best score does not decrease (null counting as
\* the lowest value) and the number of attempts does not decrease, whatever
\* was recorded in between.
C29_ProgressNeverRegresses ==
    [][(levels # <<>> /\ levels' # levels)
       => \A r \in 1..3 :
              LET old == levels[r]
                  new == levels'[r]
              IN  /\ old.completed => new.completed
                  /\ old.unlocked => new.unlocked
                  /\ old.bestScore # None
                         => (new.bestScore # None /\ new.bestScore[1] >= old.bestScore[1])
                  /\ new.attempts >= old.attempts
      ]_vars

\* a snapshot taken after a passing attempt at round 1 and a later failing one:
\* round 1 is still completed with the passing score as its best
C29_Witness ==
    /\ levels # <<>>
    /\ Len(history) >= 2
    /\ history[1].round = Some(1) /\ history[1].score < Pts(PASSING_THRESHOLD)
    /\ history[2].round = Some(1) /\ history[2].score >= Pts(PASSING_THRESHOLD)
    /\ levels[1].completed
    /\ levels[1].bestScore = Some(history[2].score)
    /\ levels[1].attempts >= 2
    /\ levels[2].unlocked

-----------------------------------------------------------------------------
(* Generation fallback *)

\* C30: a submit-prompt request whose generated text is empty is never
\* reported as passed and never increases the team's total, in any round and
\* for any prompt.
C30_EmptyGenerationNeverPasses ==
    [][\A r \in Requests :
          (req[r].pc \in {"creating", "updating"} /\ req[r].handler = "submit-prompt"
              /\ req[r].llmResp = <<>> /\ req'[r] # req[r])
          => /\ req'[r].pc = "done" => (req'[r].status = 200 => ~req'[r].response.passed)
             /\ \A t \in Teams : teamScore'[t] <= teamScore[t]
      ]_vars

=============================================================================
